---- MODULE Spec2Model ----
(***************************************************************************)
(* A model of the Raft consensus server of server.go: the role state       *)
(* machine (Stopped / Follower / Candidate / Leader), the role loops that  *)
(* consume one event at a time, the AppendEntries and RequestVote          *)
(* handlers, command processing and the leader's commit rule, and          *)
(* SnapshotRecovery.  The Log and the Peer are collaborators of the        *)
(* server whose code is not part of server.go; they are modelled from      *)
(* their description (sections 4.1 and 4.3 of the specification).          *)
(***************************************************************************)
EXTENDS Integers, Sequences, FiniteSets, TLC

\* The cluster: two servers that know each other.
Server == {"n1", "n2"}

\* The empty name: votedFor and leader when unset.
Nobody == ""

\* Role names (server.go, lines 22-27).
Stopped == "stopped"
Follower == "follower"
Candidate == "candidate"
Leader == "leader"

\* Bounds of the model.
MaxTerm == 3
MaxCommands == 2
MaxEvents == 1
MaxApplied == 3
MaxSolo == 3
MaxRound == 2

VARIABLES
    state,          \* s.state
    at,             \* which role loop the loop() goroutine is inside; "none" when not running
    currentTerm,    \* s.currentTerm
    votedFor,       \* s.votedFor
    leader,         \* s.leader
    peers,          \* s.peers: the names of the peers of each server
    startIndex,     \* s.log.startIndex
    startTerm,      \* s.log.startTerm
    entries,        \* s.log.entries
    commitIndex,    \* s.log.commitIndex
    commitCount,    \* s.commitCount while leaderLoop runs (0 outside it)
    votesGranted,   \* candidateLoop's votesGranted (0 outside candidateLoop)
    lastLogIndex,   \* candidateLoop's lastLogIndex (0 outside candidateLoop)
    lastLogTerm,    \* candidateLoop's lastLogTerm (0 outside candidateLoop)
    round,          \* the term of the vote requests of candidateLoop's current round
    asks,           \* per candidate: the peers whose sendVoteRequest has not yet called
    prevLogIndex,   \* peer.prevLogIndex, per server and peer, while leaderLoop runs
    heartbeat,      \* per server: the peers whose heartbeat is running
    c,              \* s.c: per server, the AppendEntriesResponse events waiting, in order
    applied,        \* per server: the indices handed to the apply function, in order
    submitted,      \* how many commands the clients have had logged so far
    lastSnapshot,   \* s.lastSnapshot: the index and term it covers (0, 0 when nil)
    update,         \* followerLoop's update after the event it handled last (FALSE outside)
    waiter,         \* per command: where the goroutine that processCommand spawned is
    reply,          \* per command: the values sent on the event's reply channel, in order
    sent,           \* per command: how many times the entry's commit signal was sent
    everVoted,      \* history: every <<server, term, votedFor>> recorded
    everCommitted,  \* history: every entry a leader's commit rule covered, with the term
    currentSnapshot,\* s.currentSnapshot: the index and term it covers (0, 0 when nil)
    taking,         \* per server and thread: where its takeSnapshot call is, and the
                    \* lastIndex and lastTerm the call read
    recovering,     \* per server: a SnapshotRecovery call is blocked holding s.mutex
    queued,         \* per server: how many command events wait on s.c
    stopping        \* per server: a Stop() caller waits for the reply to its sentinel

vars == <<state, at, currentTerm, votedFor, leader, peers, startIndex, startTerm,
          entries, commitIndex, commitCount, votesGranted, lastLogIndex, lastLogTerm,
          round, asks, prevLogIndex, heartbeat, c, applied, submitted, lastSnapshot,
          update, waiter, reply, sent, everVoted, everCommitted, currentSnapshot,
          taking, recovering, queued, stopping>>

roleVars == <<state, at, currentTerm, votedFor, leader>>
logVars == <<startIndex, startTerm, entries, commitIndex, applied>>
candVars == <<votesGranted, lastLogIndex, lastLogTerm, round, asks>>
leaderVars == <<commitCount, prevLogIndex, heartbeat>>
clientVars == <<submitted, waiter, reply, sent>>
threadVars == <<currentSnapshot, taking, recovering, queued, stopping>>

\* The threads that call takeSnapshot: the background task Snapshot() and a caller.
Thread == {"background", "caller"}

\* No snapshot: the nil of s.currentSnapshot and s.lastSnapshot.
NoSnapshot == [lastIndex |-> 0, lastTerm |-> 0]

\* A thread outside takeSnapshot.
Idle == [pc |-> "idle", lastIndex |-> 0, lastTerm |-> 0]

\* The role loop waiting in sendAsync to put an event on its own channel.
Sending == "sendAsync"

----------------------------------------------------------------------------
\* The event channel.  Requests are handled when the transport delivers them; the
\* AppendEntriesResponse events (the leader's own and the peers') wait on s.c.

\* newAppendEntriesResponse(term, success, index); the handler never reads index.
newAppendEntriesResponse(term, success) == [term |-> term, success |-> success]

----------------------------------------------------------------------------
\* The Log

\* log.currentIndex(): the index of the last entry.
currentIndex(i) == startIndex[i] + Len(entries[i])

\* The term of the last entry, or the snapshot's term when the log is empty.
lastTerm(i) == IF entries[i] = <<>> THEN startTerm[i] ELSE entries[i][Len(entries[i])].term

\* log.getEntry(index): the entry, or the empty sequence when there is none.
getEntry(i, index) ==
    IF index > startIndex[i] /\ index <= currentIndex(i)
    THEN <<entries[i][index - startIndex[i]]>>
    ELSE <<>>

\* The term at an index: the entry's, or the snapshot's at startIndex.
termAt(i, index) ==
    IF getEntry(i, index) # <<>> THEN getEntry(i, index)[1].term
    ELSE IF index = startIndex[i] THEN startTerm[i] ELSE 0

\* log.commitInfo(): the index and term of the last committed entry.
commitInfo(i) == [index |-> commitIndex[i], term |-> termAt(i, commitIndex[i])]

\* log.entriesAfter(index)
entriesAfter(i, index) == SubSeq(entries[i], index - startIndex[i] + 1, Len(entries[i]))

\* log.createEntry(term, command): the new entry owns a commit signal.
createEntry(i, term, command) ==
    [index |-> currentIndex(i) + 1, term |-> term, command |-> command, commit |-> TRUE]

\* An entry as a request carries it: the commit signal is transient and stays behind.
encoded(entry) == [entry EXCEPT !.commit = FALSE]

encodedAll(es) == [n \in 1..Len(es) |-> encoded(es[n])]

\* log.appendEntry on a log es that ends at index last with term lterm: the error
\* cases are a wrong index and a term below the last one.
appendOk(last, lterm, entry) == entry.index = last + 1 /\ entry.term >= lterm

RECURSIVE appendAllOk(_, _, _)
appendAllOk(last, lterm, es) ==
    IF es = <<>> THEN TRUE
    ELSE /\ appendOk(last, lterm, Head(es))
         /\ appendAllOk(Head(es).index, Head(es).term, Tail(es))

\* log.truncate(prevIndex, prevTerm): [ok, entries].
truncate(i, prevIndex, prevTerm) ==
    IF prevIndex < commitIndex[i] THEN [ok |-> FALSE, entries |-> entries[i]]
    ELSE IF prevIndex > currentIndex(i) THEN [ok |-> FALSE, entries |-> entries[i]]
    ELSE IF getEntry(i, prevIndex) # <<>> /\ getEntry(i, prevIndex)[1].term # prevTerm
    THEN [ok |-> TRUE, entries |-> SubSeq(entries[i], 1, prevIndex - startIndex[i] - 1)]
    ELSE [ok |-> TRUE, entries |-> entries[i]]

\* log.setCommitIndex(target) on a log of the given entries: the new commit index.
clampCommit(i, es, target) ==
    LET last == startIndex[i] + Len(es)
        t == IF target > last THEN last ELSE target
    IN IF t > commitIndex[i] THEN t ELSE commitIndex[i]

\* The indices setCommitIndex hands to apply, in order.
applyRange(from, to) == [k \in 1..(to - from) |-> from + k]

----------------------------------------------------------------------------
\* Membership

\* s.MemberCount()
MemberCount(i) == Cardinality(peers[i]) + 1

\* A faulty quorum, one member more than a majority.
QuorumPlusOne(i) == (MemberCount(i) \div 2) + 2

\* s.QuorumSize()
QuorumSize(i) == (MemberCount(i) \div 2) + 1

----------------------------------------------------------------------------
\* The state after NewServer on every server, each then told of the peers P names.

NewServer(P) ==
    /\ state = [i \in Server |-> Stopped]
    /\ at = [i \in Server |-> "none"]
    /\ currentTerm = [i \in Server |-> 0]
    /\ votedFor = [i \in Server |-> Nobody]
    /\ leader = [i \in Server |-> Nobody]
    /\ peers = P
    /\ startIndex = [i \in Server |-> 0]
    /\ startTerm = [i \in Server |-> 0]
    /\ entries = [i \in Server |-> <<>>]
    /\ commitIndex = [i \in Server |-> 0]
    /\ commitCount = [i \in Server |-> 0]
    /\ votesGranted = [i \in Server |-> 0]
    /\ lastLogIndex = [i \in Server |-> 0]
    /\ lastLogTerm = [i \in Server |-> 0]
    /\ round = [i \in Server |-> 0]
    /\ asks = [i \in Server |-> {}]
    /\ prevLogIndex = [i \in Server |-> [p \in Server |-> 0]]
    /\ heartbeat = [i \in Server |-> {}]
    /\ c = [i \in Server |-> <<>>]
    /\ applied = [i \in Server |-> <<>>]
    /\ submitted = 0
    /\ lastSnapshot = [i \in Server |-> NoSnapshot]
    /\ update = [i \in Server |-> FALSE]
    /\ waiter = <<>>
    /\ reply = <<>>
    /\ sent = <<>>
    /\ everVoted = {}
    /\ everCommitted = {}
    /\ currentSnapshot = [i \in Server |-> NoSnapshot]
    /\ taking = [i \in Server |-> [t \in Thread |-> Idle]]
    /\ recovering = [i \in Server |-> FALSE]
    /\ queued = [i \in Server |-> 0]
    /\ stopping = [i \in Server |-> FALSE]

\* The cluster: every server knows the other.
Init == NewServer([i \in Server |-> Server \ {i}])

\* Servers that stand alone, without peers.
InitSingle == NewServer([i \in Server |-> {}])

----------------------------------------------------------------------------
\* Term adoption and the handlers of the two requests

\* setCurrentTerm(term, leaderName, append): the role fields afterwards.
setCurrentTerm(i, term, leaderName, append) ==
    IF term > currentTerm[i]
    THEN [state |-> Follower, currentTerm |-> term, leader |-> leaderName,
          votedFor |-> Nobody]
    ELSE IF term = currentTerm[i] /\ state[i] = Candidate /\ append
    THEN [state |-> Follower, currentTerm |-> currentTerm[i], leader |-> leaderName,
          votedFor |-> votedFor[i]]
    ELSE [state |-> state[i], currentTerm |-> currentTerm[i], leader |-> leader[i],
          votedFor |-> votedFor[i]]

\* newRequestVoteRequest(term, name, lastLogIndex, lastLogTerm)
newRequestVoteRequest(term, name, lastIndex, lterm) ==
    [term |-> term, candidateName |-> name, lastLogIndex |-> lastIndex,
     lastLogTerm |-> lterm]

\* A faulty vote handler without the test for a stale term.
voteWithoutStaleTest(i, req) ==
    LET t == setCurrentTerm(i, req.term, Nobody, FALSE)
    IN IF t.votedFor # Nobody /\ t.votedFor # req.candidateName
       THEN [term |-> t.currentTerm, voteGranted |-> FALSE, state |-> t.state,
             currentTerm |-> t.currentTerm, leader |-> t.leader,
             votedFor |-> t.votedFor, update |-> FALSE]
       ELSE IF currentIndex(i) > req.lastLogIndex \/ lastTerm(i) > req.lastLogTerm
       THEN [term |-> t.currentTerm, voteGranted |-> FALSE, state |-> t.state,
             currentTerm |-> t.currentTerm, leader |-> t.leader,
             votedFor |-> t.votedFor, update |-> FALSE]
       ELSE [term |-> t.currentTerm, voteGranted |-> TRUE, state |-> t.state,
             currentTerm |-> t.currentTerm, leader |-> t.leader,
             votedFor |-> req.candidateName, update |-> TRUE]

\* processRequestVoteRequest(req): the response, the role fields afterwards and the
\* second result (update), which tells followerLoop to re-arm its election timer.
processRequestVoteRequest(i, req) ==
    IF req.term < currentTerm[i]
    THEN [term |-> currentTerm[i], voteGranted |-> FALSE, state |-> state[i],
          currentTerm |-> currentTerm[i], leader |-> leader[i], votedFor |-> votedFor[i],
          update |-> FALSE]
    ELSE LET t == setCurrentTerm(i, req.term, Nobody, FALSE)
         IN IF t.votedFor # Nobody /\ t.votedFor # req.candidateName
            THEN [term |-> t.currentTerm, voteGranted |-> FALSE, state |-> t.state,
                  currentTerm |-> t.currentTerm, leader |-> t.leader,
                  votedFor |-> t.votedFor, update |-> FALSE]
            ELSE IF currentIndex(i) > req.lastLogIndex \/ lastTerm(i) > req.lastLogTerm
            THEN [term |-> t.currentTerm, voteGranted |-> FALSE, state |-> t.state,
                  currentTerm |-> t.currentTerm, leader |-> t.leader,
                  votedFor |-> t.votedFor, update |-> FALSE]
            ELSE [term |-> t.currentTerm, voteGranted |-> TRUE, state |-> t.state,
                  currentTerm |-> t.currentTerm, leader |-> t.leader,
                  votedFor |-> req.candidateName, update |-> TRUE]

\* The AppendEntriesRequest a peer's heartbeat builds from the leader's state.
newAppendEntriesRequest(i, p) ==
    [term |-> currentTerm[i], leaderName |-> i,
     prevLogIndex |-> prevLogIndex[i][p],
     prevLogTerm |-> termAt(i, prevLogIndex[i][p]),
     entries |-> encodedAll(entriesAfter(i, prevLogIndex[i][p])),
     commitIndex |-> commitIndex[i]]

\* processAppendEntriesRequest(req): the response, the role fields and the log
\* afterwards, and the second result (update).
processAppendEntriesRequest(i, req) ==
    IF req.term < currentTerm[i]
    THEN [term |-> currentTerm[i], success |-> FALSE, state |-> state[i],
          currentTerm |-> currentTerm[i], leader |-> leader[i], votedFor |-> votedFor[i],
          entries |-> entries[i], commitIndex |-> commitIndex[i], update |-> FALSE]
    ELSE LET t == setCurrentTerm(i, req.term, req.leaderName, TRUE)
             tr == truncate(i, req.prevLogIndex, req.prevLogTerm)
             last == startIndex[i] + Len(tr.entries)
             lterm == IF tr.entries = <<>> THEN startTerm[i]
                      ELSE tr.entries[Len(tr.entries)].term
             ok == tr.ok /\ appendAllOk(last, lterm, req.entries)
             es == IF ok THEN tr.entries \o req.entries ELSE tr.entries
         IN [term |-> t.currentTerm, success |-> ok, state |-> t.state,
             currentTerm |-> t.currentTerm, leader |-> t.leader, votedFor |-> t.votedFor,
             entries |-> es,
             commitIndex |-> IF ok THEN clampCommit(i, es, req.commitIndex)
                             ELSE commitIndex[i],
             update |-> TRUE]

----------------------------------------------------------------------------
\* The role loops
\*
\* commitCount and the peers' prevLogIndex are read only inside leaderLoop, whose
\* entry overwrites both; votesGranted, lastLogIndex, lastLogTerm and the round are
\* locals of candidateLoop, update is a local of followerLoop.  Outside their loop
\* the model keeps them at their zero value.

\* The loop a server is in once it has handled a request that left it in role st:
\* followerLoop when the handler made it a Follower, the same loop otherwise.
loopAfter(i, st) == IF st = Follower THEN Follower ELSE at[i]

NoIndex == [q \in Server |-> 0]

\* A faulty followerLoop, which re-arms its election timer after every event.
updateAlways(was, now, u) == was = Follower /\ now = Follower

\* followerLoop's update once a server that was in loop was and is now in loop now
\* has handled an event whose handler returned u.
updateAfter(was, now, u) == was = Follower /\ now = Follower /\ u

\* f with the loop-scoped value of server x gone once x is in loop atx, not in loop.
scoped(f, x, atx, loop, gone) == [f EXCEPT ![x] = IF atx = loop THEN @ ELSE gone]

\* The history of votes, recorded at every step.
RecordVotes ==
    /\ everVoted' = everVoted \cup
           {<<i, currentTerm'[i], votedFor'[i]>> :
               i \in {x \in Server : votedFor'[x] # Nobody}}

\* A step that involves no snapshot thread, no queued command and no Stop() caller.
Record ==
    /\ RecordVotes
    /\ UNCHANGED threadVars

\* The events on s.c: the AppendEntriesResponse events and the queued commands.
occupancy(i) == Len(c[i]) + queued[i]

\* StartFollower(): setState(Follower) and the loop starts in followerLoop.
StartFollower(i) ==
    /\ at[i] = "none"
    /\ state' = [state EXCEPT ![i] = Follower]
    /\ at' = [at EXCEPT ![i] = Follower]
    /\ UNCHANGED <<currentTerm, votedFor, leader, peers, logVars, candVars, leaderVars,
                   c, clientVars, lastSnapshot, update, everCommitted>>
    /\ Record

\* StartLeader(): setState(Leader), currentTerm++, and the loop starts in leaderLoop,
\* which resets commitCount, sets every peer's prevLogIndex and starts the heartbeats.
StartLeader(i) ==
    /\ at[i] = "none"
    /\ currentTerm[i] < MaxTerm
    /\ state' = [state EXCEPT ![i] = Leader]
    /\ leader' = [leader EXCEPT ![i] = i]
    /\ currentTerm' = [currentTerm EXCEPT ![i] = @ + 1]
    /\ at' = [at EXCEPT ![i] = Leader]
    /\ commitCount' = [commitCount EXCEPT ![i] = 0]
    /\ prevLogIndex' = [prevLogIndex EXCEPT ![i] =
           [q \in Server |-> IF q \in peers[i] THEN currentIndex(i) ELSE 0]]
    /\ heartbeat' = [heartbeat EXCEPT ![i] = peers[i]]
    /\ UNCHANGED <<votedFor, peers, logVars, candVars, c, clientVars, lastSnapshot,
                   update, everCommitted>>
    /\ Record

\* Stop(): the role loop dequeues the stop sentinel.  followerLoop and leaderLoop
\* leave and loop() returns; candidateLoop's break leaves only its select, so the
\* inner loop goes on with the role Stopped.
Stop(i) ==
    /\ at[i] \in {Follower, Candidate, Leader}
    /\ stopping' = [stopping EXCEPT ![i] = @ \/ at[i] = Candidate]
    /\ state' = [state EXCEPT ![i] = Stopped]
    /\ at' = [at EXCEPT ![i] = IF at[i] = Candidate THEN Candidate ELSE "none"]
    /\ heartbeat' = [heartbeat EXCEPT ![i] = {}]
    /\ commitCount' = [commitCount EXCEPT ![i] = 0]
    /\ prevLogIndex' = [prevLogIndex EXCEPT ![i] = NoIndex]
    /\ update' = [update EXCEPT ![i] = FALSE]
    /\ UNCHANGED <<currentTerm, votedFor, leader, peers, logVars, candVars, c,
                   clientVars, lastSnapshot, everCommitted>>
    /\ UNCHANGED <<currentSnapshot, taking, recovering, queued>>
    /\ RecordVotes

\* One round of candidateLoop's outer loop begins: the term is incremented, the
\* server votes for itself and a vote request is spawned for every peer.
StartRound(i) ==
    /\ currentTerm' = [currentTerm EXCEPT ![i] = @ + 1]
    /\ votedFor' = [votedFor EXCEPT ![i] = i]
    /\ votesGranted' = [votesGranted EXCEPT ![i] = 1]
    /\ round' = [round EXCEPT ![i] = currentTerm[i] + 1]
    /\ asks' = [asks EXCEPT ![i] = peers[i]]

\* followerLoop's election timer fires: the role becomes Candidate, candidateLoop
\* reads the log's last index and term, clears the leader and begins its first
\* round.  With no peers its own vote is a quorum: the role becomes Leader at once
\* and leaderLoop begins.  Rounds begin while the term is below max.
FollowerTimeout(i, max) ==
    /\ at[i] = Follower
    /\ currentTerm[i] < max
    /\ update' = [update EXCEPT ![i] = FALSE]
    /\ IF 1 >= QuorumSize(i)
       THEN /\ state' = [state EXCEPT ![i] = Leader]
            /\ at' = [at EXCEPT ![i] = Leader]
            /\ leader' = [leader EXCEPT ![i] = i]
            /\ currentTerm' = [currentTerm EXCEPT ![i] = @ + 1]
            /\ votedFor' = [votedFor EXCEPT ![i] = i]
            /\ commitCount' = [commitCount EXCEPT ![i] = 0]
            /\ prevLogIndex' = [prevLogIndex EXCEPT ![i] = NoIndex]
            /\ heartbeat' = [heartbeat EXCEPT ![i] = peers[i]]
            /\ UNCHANGED candVars
       ELSE /\ state' = [state EXCEPT ![i] = Candidate]
            /\ at' = [at EXCEPT ![i] = Candidate]
            /\ leader' = [leader EXCEPT ![i] = Nobody]
            /\ lastLogIndex' = [lastLogIndex EXCEPT ![i] = currentIndex(i)]
            /\ lastLogTerm' = [lastLogTerm EXCEPT ![i] = lastTerm(i)]
            /\ StartRound(i)
            /\ UNCHANGED leaderVars
    /\ UNCHANGED <<peers, logVars, c, clientVars, lastSnapshot, everCommitted>>
    /\ Record

\* candidateLoop's election timer fires: a Candidate begins the next round; with the
\* role Stopped the outer loop breaks and loop() returns.
CandidateTimeout(i, max) ==
    /\ at[i] = Candidate
    /\ IF state[i] = Candidate
       THEN /\ currentTerm[i] < max
            /\ StartRound(i)
            /\ UNCHANGED <<state, at, lastLogIndex, lastLogTerm>>
       ELSE /\ at' = [at EXCEPT ![i] = "none"]
            /\ asks' = [asks EXCEPT ![i] = {}]
            /\ votesGranted' = [votesGranted EXCEPT ![i] = 0]
            /\ round' = [round EXCEPT ![i] = 0]
            /\ lastLogIndex' = [lastLogIndex EXCEPT ![i] = 0]
            /\ lastLogTerm' = [lastLogTerm EXCEPT ![i] = 0]
            /\ UNCHANGED <<state, currentTerm, votedFor>>
    /\ UNCHANGED <<leader, peers, logVars, leaderVars, c, clientVars, lastSnapshot,
                   update, everCommitted>>
    /\ Record

\* A peer's sendVoteRequest completes: p handles the request in its role loop, and,
\* when the response comes back (delivered), candidateLoop takes it from respChan:
\* a granted vote is counted and at a quorum the role becomes Leader and leaderLoop
\* begins; a higher term is adopted.  An undelivered response is lost.
RequestVote(i, p, delivered) ==
    /\ at[i] = Candidate
    /\ p \in asks[i]
    /\ at[p] # "none"
    /\ LET req == newRequestVoteRequest(round[i], i, lastLogIndex[i], lastLogTerm[i])
           r == processRequestVoteRequest(p, req)
           granted == delivered /\ r.voteGranted
           votes == IF granted THEN votesGranted[i] + 1 ELSE votesGranted[i]
           higher == delivered /\ ~r.voteGranted /\ r.term > currentTerm[i]
           t == IF higher THEN setCurrentTerm(i, r.term, Nobody, FALSE)
                ELSE [state |-> state[i], currentTerm |-> currentTerm[i],
                      leader |-> leader[i], votedFor |-> votedFor[i]]
           won == granted /\ votes >= QuorumSize(i)
           ati == IF won THEN Leader ELSE loopAfter(i, t.state)
           atp == loopAfter(p, r.state)
           stays == ati = Candidate
       IN /\ state' = [state EXCEPT ![p] = r.state,
                                    ![i] = IF won THEN Leader ELSE t.state]
          /\ currentTerm' = [currentTerm EXCEPT ![p] = r.currentTerm,
                                                ![i] = t.currentTerm]
          /\ leader' = [leader EXCEPT ![p] = r.leader,
                                      ![i] = IF won THEN i ELSE t.leader]
          /\ votedFor' = [votedFor EXCEPT ![p] = r.votedFor, ![i] = t.votedFor]
          /\ at' = [at EXCEPT ![p] = atp, ![i] = ati]
          /\ update' = [update EXCEPT ![p] = updateAfter(at[p], atp, r.update)]
          /\ votesGranted' = [scoped(votesGranted, p, atp, Candidate, 0)
                                  EXCEPT ![i] = IF stays THEN votes ELSE 0]
          /\ asks' = [scoped(asks, p, atp, Candidate, {})
                          EXCEPT ![i] = IF stays THEN @ \ {p} ELSE {}]
          /\ round' = scoped(scoped(round, p, atp, Candidate, 0), i, ati, Candidate, 0)
          /\ lastLogIndex' = scoped(scoped(lastLogIndex, p, atp, Candidate, 0),
                                    i, ati, Candidate, 0)
          /\ lastLogTerm' = scoped(scoped(lastLogTerm, p, atp, Candidate, 0),
                                   i, ati, Candidate, 0)
          /\ commitCount' = scoped(commitCount, p, atp, Leader, 0)
          /\ prevLogIndex' = [scoped(prevLogIndex, p, atp, Leader, NoIndex) EXCEPT ![i] =
                 [q \in Server |-> IF won /\ q \in peers[i] THEN currentIndex(i) ELSE 0]]
          /\ heartbeat' = [scoped(heartbeat, p, atp, Leader, {})
                               EXCEPT ![i] = IF won THEN peers[i] ELSE {}]
    /\ UNCHANGED <<peers, logVars, c, clientVars, lastSnapshot, everCommitted>>
    /\ Record

\* A faulty handling of a command outside leaderLoop, which appends the command to
\* the log as a leader would before answering NotLeaderError.
DoAppending(i, max) ==
    /\ at[i] \in {Follower, Candidate}
    /\ submitted < max
    /\ submitted' = submitted + 1
    /\ sent' = Append(sent, 0)
    /\ waiter' = Append(waiter, "none")
    /\ reply' = Append(reply, <<"NotLeaderError">>)
    /\ update' = [update EXCEPT ![i] = FALSE]
    /\ entries' = [entries EXCEPT ![i] =
           Append(@, createEntry(i, currentTerm[i], submitted + 1))]
    /\ UNCHANGED <<roleVars, peers, startIndex, startTerm, commitIndex, applied,
                   candVars, leaderVars, c, lastSnapshot, everCommitted>>
    /\ Record

\* Do(command) on a server in followerLoop or candidateLoop: the role loop dequeues
\* the command and answers NotLeaderError; nothing else changes.  The clients'
\* commands, at most max, are numbered in the order the servers dequeue them.
DoNotLeader(i, max) ==
    /\ at[i] \in {Follower, Candidate}
    /\ submitted < max
    /\ submitted' = submitted + 1
    /\ sent' = Append(sent, 0)
    /\ waiter' = Append(waiter, "none")
    /\ reply' = Append(reply, <<"NotLeaderError">>)
    /\ update' = [update EXCEPT ![i] = FALSE]
    /\ UNCHANGED <<roleVars, peers, logVars, candVars, leaderVars, c, lastSnapshot,
                   everCommitted>>
    /\ Record

\* Do(command) on a server in leaderLoop: the role loop dequeues the command and
\* processCommand appends an entry of the current term, spawns the goroutine that
\* waits for the commit signal, and enqueues the leader's own AppendEntriesResponse;
\* when the append fails its error is the answer.
processCommand(i, max) ==
    /\ at[i] = Leader
    /\ submitted < max
    /\ occupancy(i) < MaxEvents
    /\ submitted' = submitted + 1
    /\ sent' = Append(sent, 0)
    /\ LET entry == createEntry(i, currentTerm[i], submitted + 1)
       IN IF appendOk(currentIndex(i), lastTerm(i), entry)
          THEN /\ entries' = [entries EXCEPT ![i] = Append(@, entry)]
               /\ c' = [c EXCEPT ![i] =
                      Append(@, newAppendEntriesResponse(currentTerm[i], TRUE))]
               /\ waiter' = Append(waiter, "waiting")
               /\ reply' = Append(reply, <<>>)
          ELSE /\ waiter' = Append(waiter, "none")
               /\ reply' = Append(reply, <<"error">>)
               /\ UNCHANGED <<entries, c>>
    /\ UNCHANGED <<roleVars, peers, startIndex, startTerm, commitIndex, applied,
                   candVars, leaderVars, lastSnapshot, update, everCommitted>>
    /\ Record

\* Do(command), the caller's half: sendAsync puts the command's event on s.c, which
\* takes it while it holds fewer events than its capacity.
DoSend(i) ==
    /\ occupancy(i) < MaxEvents
    /\ queued' = [queued EXCEPT ![i] = @ + 1]
    /\ UNCHANGED <<roleVars, peers, logVars, candVars, leaderVars, c, clientVars,
                   lastSnapshot, update, everCommitted, currentSnapshot, taking,
                   recovering, stopping>>
    /\ RecordVotes

\* leaderLoop dequeues a command and processCommand runs up to its last statement:
\* the entry of the current term is appended and the goroutine that waits for the
\* commit signal is spawned; what is left is the sendAsync of the leader's own
\* AppendEntriesResponse.  When the append fails its error is the answer.
processQueued(i, max) ==
    /\ at[i] = Leader
    /\ queued[i] > 0
    /\ submitted < max
    /\ queued' = [queued EXCEPT ![i] = @ - 1]
    /\ submitted' = submitted + 1
    /\ sent' = Append(sent, 0)
    /\ LET entry == createEntry(i, currentTerm[i], submitted + 1)
       IN IF appendOk(currentIndex(i), lastTerm(i), entry)
          THEN /\ entries' = [entries EXCEPT ![i] = Append(@, entry)]
               /\ at' = [at EXCEPT ![i] = Sending]
               /\ waiter' = Append(waiter, "waiting")
               /\ reply' = Append(reply, <<>>)
          ELSE /\ waiter' = Append(waiter, "none")
               /\ reply' = Append(reply, <<"error">>)
               /\ UNCHANGED <<entries, at>>
    /\ UNCHANGED <<state, currentTerm, votedFor, leader, peers, startIndex, startTerm,
                   commitIndex, applied, candVars, leaderVars, c, lastSnapshot, update,
                   everCommitted, currentSnapshot, taking, recovering, stopping>>
    /\ RecordVotes

\* The last statement of processCommand: sendAsync puts the leader's own
\* AppendEntriesResponse on s.c, waiting while the channel is full, and leaderLoop
\* goes on to the next event.
selfAcknowledge(i) ==
    /\ at[i] = Sending
    /\ occupancy(i) < MaxEvents
    /\ c' = [c EXCEPT ![i] = Append(@, newAppendEntriesResponse(currentTerm[i], TRUE))]
    /\ at' = [at EXCEPT ![i] = Leader]
    /\ UNCHANGED <<state, currentTerm, votedFor, leader, peers, logVars, candVars,
                   leaderVars, clientVars, lastSnapshot, update, everCommitted>>
    /\ Record

\* A faulty waiter, which answers with the apply result on the commit signal and
\* goes on waiting for its deadline.
WaiterStaying(k) ==
    /\ k \in 1..submitted
    /\ waiter[k] = "waiting"
    /\ sent[k] > 0
    /\ Len(reply[k]) < 2
    /\ reply' = [reply EXCEPT ![k] = Append(@, "result")]
    /\ UNCHANGED <<roleVars, peers, logVars, candVars, leaderVars, c, submitted, sent,
                   waiter, lastSnapshot, update, everCommitted>>
    /\ Record

\* The goroutine of command k receives the entry's commit signal: the apply result
\* is the answer.
WaiterCommitted(k) ==
    /\ k \in 1..submitted
    /\ waiter[k] = "waiting"
    /\ sent[k] > 0
    /\ waiter' = [waiter EXCEPT ![k] = "gone"]
    /\ reply' = [reply EXCEPT ![k] = Append(@, "result")]
    /\ UNCHANGED <<roleVars, peers, logVars, candVars, leaderVars, c, submitted, sent,
                   lastSnapshot, update, everCommitted>>
    /\ Record

\* The goroutine of command k reaches its deadline: CommandTimeoutError is the answer.
WaiterTimeout(k) ==
    /\ k \in 1..submitted
    /\ waiter[k] = "waiting"
    /\ waiter' = [waiter EXCEPT ![k] = "gone"]
    /\ reply' = [reply EXCEPT ![k] = Append(@, "CommandTimeoutError")]
    /\ UNCHANGED <<roleVars, peers, logVars, candVars, leaderVars, c, submitted, sent,
                   lastSnapshot, update, everCommitted>>
    /\ Record

\* A peer's heartbeat completes one AppendEntries call: p handles the request in its
\* role loop, the peer advances prevLogIndex on success (or steps it back on a
\* failure that is not a stale term) and enqueues the response on the leader's channel.
Heartbeat(i, p) ==
    /\ p \in heartbeat[i]
    /\ at[p] # "none"
    /\ prevLogIndex[i][p] >= startIndex[i]
    /\ occupancy(i) < MaxEvents
    /\ LET req == newAppendEntriesRequest(i, p)
           r == processAppendEntriesRequest(p, req)
           atp == loopAfter(p, r.state)
       IN /\ state' = [state EXCEPT ![p] = r.state]
          /\ currentTerm' = [currentTerm EXCEPT ![p] = r.currentTerm]
          /\ leader' = [leader EXCEPT ![p] = r.leader]
          /\ votedFor' = [votedFor EXCEPT ![p] = r.votedFor]
          /\ at' = [at EXCEPT ![p] = atp]
          /\ update' = [update EXCEPT ![p] = updateAfter(at[p], atp, r.update)]
          /\ asks' = scoped(asks, p, atp, Candidate, {})
          /\ votesGranted' = scoped(votesGranted, p, atp, Candidate, 0)
          /\ round' = scoped(round, p, atp, Candidate, 0)
          /\ lastLogIndex' = scoped(lastLogIndex, p, atp, Candidate, 0)
          /\ lastLogTerm' = scoped(lastLogTerm, p, atp, Candidate, 0)
          /\ heartbeat' = scoped(heartbeat, p, atp, Leader, {})
          /\ commitCount' = scoped(commitCount, p, atp, Leader, 0)
          /\ entries' = [entries EXCEPT ![p] = r.entries]
          /\ commitIndex' = [commitIndex EXCEPT ![p] = r.commitIndex]
          /\ applied' = [applied EXCEPT ![p] =
                 @ \o applyRange(commitIndex[p], r.commitIndex)]
          /\ prevLogIndex' = [scoped(prevLogIndex, p, atp, Leader, NoIndex)
                 EXCEPT ![i][p] =
                     IF r.success THEN @ + Len(req.entries)
                     ELSE IF r.term <= req.term /\ @ > startIndex[i] THEN @ - 1
                     ELSE @]
          /\ c' = [c EXCEPT ![i] = Append(@, newAppendEntriesResponse(r.term, r.success))]
    /\ UNCHANGED <<peers, startIndex, startTerm, clientVars, lastSnapshot, everCommitted>>
    /\ Record

\* sort.Sort(uint64Slice(indices)): the indices in descending order.
RECURSIVE insertDescending(_, _)
insertDescending(n, sorted) ==
    IF sorted = <<>> THEN <<n>>
    ELSE IF n >= Head(sorted) THEN <<n>> \o sorted
    ELSE <<Head(sorted)>> \o insertDescending(n, Tail(sorted))

RECURSIVE peerIndices(_, _)
peerIndices(i, P) ==
    IF P = {} THEN <<>>
    ELSE LET p == CHOOSE x \in P : TRUE
         IN insertDescending(prevLogIndex[i][p], peerIndices(i, P \ {p}))

\* The index processAppendEntriesResponse commits up to: indices[QuorumSize()-1].
majorityIndex(i) ==
    insertDescending(currentIndex(i), peerIndices(i, peers[i]))[QuorumSize(i)]

\* s.commitCount++; the count is only ever compared with the quorum, so the model
\* stops counting there.
countUp(i) == IF commitCount[i] < QuorumSize(i) THEN commitCount[i] + 1 ELSE commitCount[i]

\* The entry of i at index n without its commit signal, or the empty sequence.
entryAt(i, n) == IF getEntry(i, n) = <<>> THEN <<>> ELSE <<encoded(getEntry(i, n)[1])>>

\* The servers whose own log holds the entry that i holds at index n.
holders(i, n) == {x \in Server : entryAt(x, n) # <<>> /\ entryAt(x, n) = entryAt(i, n)}

\* The entries of i at the indices from+1..to, each with the committing leader's term.
committedNow(i, from, to) ==
    {[entry |-> entryAt(i, k)[1], term |-> currentTerm[i]] :
        k \in {x \in (from + 1)..to : getEntry(i, x) # <<>>}}

\* The commands whose entry, at an index of from+1..to in the log of i, has a commit
\* signal to send on.
signalled(i, from, to) ==
    {getEntry(i, k)[1].command :
        k \in {x \in (from + 1)..to : getEntry(i, x) # <<>> /\ getEntry(i, x)[1].commit}}

\* The role loop dequeues an AppendEntriesResponse.  Outside leaderLoop it is
\* dropped.  In leaderLoop processAppendEntriesResponse adopts a higher term, ignores
\* a failure, and otherwise counts the response and commits up to the majority
\* index, sending the commit signal of every entry it newly covers.
HandleAppendEntriesResponse(i) ==
    /\ at[i] # "none"
    /\ c[i] # <<>>
    /\ c' = [c EXCEPT ![i] = Tail(@)]
    /\ update' = [update EXCEPT ![i] = FALSE]
    /\ LET resp == Head(c[i])
           t == setCurrentTerm(i, resp.term, Nobody, FALSE)
           n == clampCommit(i, entries[i], majorityIndex(i))
       IN IF at[i] # Leader
          THEN UNCHANGED <<roleVars, leaderVars, commitIndex, applied, sent, everCommitted>>
          ELSE IF resp.term > currentTerm[i]
          THEN /\ state' = [state EXCEPT ![i] = t.state]
               /\ currentTerm' = [currentTerm EXCEPT ![i] = t.currentTerm]
               /\ leader' = [leader EXCEPT ![i] = t.leader]
               /\ votedFor' = [votedFor EXCEPT ![i] = t.votedFor]
               /\ at' = [at EXCEPT ![i] = Follower]
               /\ heartbeat' = [heartbeat EXCEPT ![i] = {}]
               /\ commitCount' = [commitCount EXCEPT ![i] = 0]
               /\ prevLogIndex' = [prevLogIndex EXCEPT ![i] = NoIndex]
               /\ UNCHANGED <<commitIndex, applied, sent, everCommitted>>
          ELSE IF ~resp.success
          THEN UNCHANGED <<roleVars, leaderVars, commitIndex, applied, sent, everCommitted>>
          ELSE /\ commitCount' = [commitCount EXCEPT ![i] = countUp(i)]
               /\ IF countUp(i) >= QuorumSize(i) /\ majorityIndex(i) > commitIndex[i]
                  THEN /\ commitIndex' = [commitIndex EXCEPT ![i] = n]
                       /\ applied' = [applied EXCEPT ![i] =
                              @ \o applyRange(commitIndex[i], n)]
                       /\ sent' = [k \in 1..Len(sent) |->
                              IF k \in signalled(i, commitIndex[i], n)
                              THEN sent[k] + 1 ELSE sent[k]]
                       /\ everCommitted' = everCommitted \cup
                              committedNow(i, commitIndex[i], n)
                  ELSE UNCHANGED <<commitIndex, applied, sent, everCommitted>>
               /\ UNCHANGED <<roleVars, heartbeat, prevLogIndex>>
    /\ UNCHANGED <<peers, startIndex, startTerm, entries, candVars, submitted, waiter,
                   reply, lastSnapshot>>
    /\ Record

\* log.compact(lastIndex, lastTerm) on the log of i: the entries up to lastIndex
\* are discarded and startIndex and startTerm move forward.
compact(i, lastIndex, lterm) ==
    IF lastIndex > startIndex[i]
    THEN [startIndex |-> lastIndex, startTerm |-> lterm,
          entries |-> entriesAfter(i, IF lastIndex > currentIndex(i) THEN currentIndex(i)
                                      ELSE lastIndex)]
    ELSE [startIndex |-> startIndex[i], startTerm |-> startTerm[i], entries |-> entries[i]]

\* takeSnapshot(): with nothing committed it fails; otherwise the snapshot of the
\* commit point is saved as lastSnapshot and the log is compacted up to it.
takeSnapshot(i) ==
    /\ currentSnapshot[i] = NoSnapshot
    /\ commitInfo(i).index # 0
    /\ commitInfo(i).term # 0
    /\ LET info == commitInfo(i)
           l == compact(i, info.index, info.term)
       IN /\ lastSnapshot' = [lastSnapshot EXCEPT ![i] =
                 [lastIndex |-> info.index, lastTerm |-> info.term]]
          /\ startIndex' = [startIndex EXCEPT ![i] = l.startIndex]
          /\ startTerm' = [startTerm EXCEPT ![i] = l.startTerm]
          /\ entries' = [entries EXCEPT ![i] = l.entries]
    /\ UNCHANGED <<roleVars, peers, commitIndex, applied, candVars, leaderVars, c,
                   clientVars, update, everCommitted>>
    /\ Record

\* takeSnapshot() of thread t, up to the read of the commit point: the call goes on
\* only while s.currentSnapshot is nil and something is committed.  No lock is taken.
takeCheck(i, t) ==
    /\ taking[i][t].pc = "idle"
    /\ currentSnapshot[i] = NoSnapshot
    /\ commitInfo(i).index # 0
    /\ commitInfo(i).term # 0
    /\ taking' = [taking EXCEPT ![i][t] =
           [pc |-> "read", lastIndex |-> commitInfo(i).index,
            lastTerm |-> commitInfo(i).term]]
    /\ UNCHANGED <<roleVars, peers, logVars, applied, candVars, leaderVars, c, clientVars,
                   lastSnapshot, update, everCommitted, currentSnapshot, recovering,
                   queued, stopping>>
    /\ RecordVotes

\* takeSnapshot() of thread t creates s.currentSnapshot from what it read.
takeCreate(i, t) ==
    /\ taking[i][t].pc = "read"
    /\ currentSnapshot' = [currentSnapshot EXCEPT ![i] =
           [lastIndex |-> taking[i][t].lastIndex, lastTerm |-> taking[i][t].lastTerm]]
    /\ taking' = [taking EXCEPT ![i][t].pc = "created"]
    /\ UNCHANGED <<roleVars, peers, logVars, applied, candVars, leaderVars, c, clientVars,
                   lastSnapshot, update, everCommitted, recovering, queued, stopping>>
    /\ RecordVotes

\* saveSnapshot(), the file written or not (ok): with no current snapshot or a failed
\* write it returns an error and changes nothing; otherwise the current snapshot
\* becomes lastSnapshot and s.currentSnapshot is nil again.
saveSnapshot(i, ok) ==
    IF currentSnapshot[i] # NoSnapshot /\ ok
    THEN [lastSnapshot |-> currentSnapshot[i], currentSnapshot |-> NoSnapshot]
    ELSE [lastSnapshot |-> lastSnapshot[i], currentSnapshot |-> currentSnapshot[i]]

\* takeSnapshot() of thread t calls saveSnapshot() and drops what it returns.
takeSave(i, t, ok) ==
    /\ taking[i][t].pc = "created"
    /\ lastSnapshot' = [lastSnapshot EXCEPT ![i] = saveSnapshot(i, ok).lastSnapshot]
    /\ currentSnapshot' = [currentSnapshot EXCEPT ![i] = saveSnapshot(i, ok).currentSnapshot]
    /\ taking' = [taking EXCEPT ![i][t].pc = "saved"]
    /\ UNCHANGED <<roleVars, peers, logVars, applied, candVars, leaderVars, c, clientVars,
                   update, everCommitted, recovering, queued, stopping>>
    /\ RecordVotes

\* takeSnapshot() of thread t compacts the log up to the commit point it read and
\* returns nil.
takeCompact(i, t) ==
    /\ taking[i][t].pc = "saved"
    /\ LET l == compact(i, taking[i][t].lastIndex, taking[i][t].lastTerm)
       IN /\ startIndex' = [startIndex EXCEPT ![i] = l.startIndex]
          /\ startTerm' = [startTerm EXCEPT ![i] = l.startTerm]
          /\ entries' = [entries EXCEPT ![i] = l.entries]
    /\ taking' = [taking EXCEPT ![i][t] = Idle]
    /\ UNCHANGED <<roleVars, peers, commitIndex, applied, candVars, leaderVars, c,
                   clientVars, lastSnapshot, update, everCommitted, currentSnapshot,
                   recovering, queued, stopping>>
    /\ RecordVotes

\* SnapshotRecovery(req) on server i, the request carrying the last snapshot of
\* server j and the names of j and its peers.  The call holds s.mutex throughout.
\* With every name of the request known already (AddPeer answers DuplicatePeerError
\* or skips the own name), currentTerm becomes the snapshot's term, the commit index
\* the snapshot's index, the snapshot is saved and the log is compacted.  With a new
\* name AddPeer calls s.State(), which waits for the read lock of the mutex the
\* call holds: the call never returns and the mutex is never released.
SnapshotRecovery(i, j) ==
    /\ i # j
    /\ i \in peers[j]
    /\ ~recovering[i]
    /\ lastSnapshot[j].lastIndex # 0
    /\ Len(applied[i]) < MaxApplied
    /\ IF (peers[j] \cup {j}) \ {i} \subseteq peers[i]
       THEN LET req == lastSnapshot[j]
                l == compact(i, req.lastIndex, req.lastTerm)
            IN /\ currentTerm' = [currentTerm EXCEPT ![i] = req.lastTerm]
               /\ commitIndex' = [commitIndex EXCEPT ![i] = req.lastIndex]
               /\ lastSnapshot' = [lastSnapshot EXCEPT ![i] = req]
               /\ currentSnapshot' = [currentSnapshot EXCEPT ![i] = NoSnapshot]
               /\ startIndex' = [startIndex EXCEPT ![i] = l.startIndex]
               /\ startTerm' = [startTerm EXCEPT ![i] = l.startTerm]
               /\ entries' = [entries EXCEPT ![i] = l.entries]
               /\ UNCHANGED recovering
       ELSE /\ recovering' = [recovering EXCEPT ![i] = TRUE]
            /\ UNCHANGED <<currentTerm, logVars, lastSnapshot, currentSnapshot>>
    /\ UNCHANGED <<state, at, votedFor, leader, peers, applied, candVars, leaderVars, c,
                   clientVars, update, everCommitted, taking, queued, stopping>>
    /\ RecordVotes

\* A faulty AddPeer, which starts the new peer's heartbeat whatever the role is.
AddPeerBeating(i, name) ==
    /\ at[i] # Candidate
    /\ IF name \in peers[i] \/ name = i
       THEN UNCHANGED <<peers, heartbeat>>
       ELSE /\ peers' = [peers EXCEPT ![i] = @ \cup {name}]
            /\ heartbeat' = [heartbeat EXCEPT ![i] = @ \cup {name}]
    /\ UNCHANGED <<roleVars, logVars, candVars, commitCount, prevLogIndex, c, clientVars,
                   lastSnapshot, update, everCommitted>>
    /\ Record

\* AddPeer(name), called by a join command while it is applied, in followerLoop or
\* leaderLoop, or before the server is started: a known name is DuplicatePeerError,
\* the server's own name is ignored, and a new peer's heartbeat starts when the role
\* is Leader.
AddPeer(i, name) ==
    /\ at[i] # Candidate
    /\ IF name \in peers[i] \/ name = i
       THEN UNCHANGED <<peers, heartbeat>>
       ELSE /\ peers' = [peers EXCEPT ![i] = @ \cup {name}]
            /\ heartbeat' = [heartbeat EXCEPT ![i] =
                   IF state[i] = Leader THEN @ \cup {name} ELSE @]
    /\ UNCHANGED <<roleVars, logVars, candVars, commitCount, prevLogIndex, c, clientVars,
                   lastSnapshot, update, everCommitted>>
    /\ Record

\* RemovePeer(name): the server's own name is ignored, an unknown name is an error,
\* and a peer's heartbeat is stopped before the peer is deleted.
RemovePeer(i, name) ==
    /\ at[i] # Candidate
    /\ IF name = i \/ name \notin peers[i]
       THEN UNCHANGED <<peers, heartbeat, prevLogIndex>>
       ELSE /\ peers' = [peers EXCEPT ![i] = @ \ {name}]
            /\ heartbeat' = [heartbeat EXCEPT ![i] = @ \ {name}]
            /\ prevLogIndex' = [prevLogIndex EXCEPT ![i][name] = 0]
    /\ UNCHANGED <<roleVars, logVars, candVars, commitCount, c, clientVars, lastSnapshot,
                   update, everCommitted>>
    /\ Record

----------------------------------------------------------------------------
\* One vote request between servers with logs of every shape

\* An entry logged before the servers were last started: no client waits for it.
oldEntry(index, term) == [index |-> index, term |-> term, command |-> 0, commit |-> FALSE]

\* The logs of up to MaxCommands entries whose terms do not decrease.
Logs ==
    UNION {{[k \in 1..n |-> oldEntry(k, f[k])] :
               f \in {g \in [1..n -> 1..MaxTerm] :
                         \A a, b \in 1..n : a <= b => g[a] <= g[b]}} :
           n \in 0..MaxCommands}

\* The term of the last entry of the log es, 0 when it is empty.
lastTermOf(es) == IF es = <<>> THEN 0 ELSE es[Len(es)].term

\* A candidate i in a round of term ti, its request to p not yet handled, and a
\* follower p at term tp that has voted for v.
InitVote ==
    \E i \in Server : \E p \in Server \ {i} :
    \E li \in Logs : \E lp \in Logs :
    \E ti \in 1..MaxTerm : \E tp \in 0..MaxTerm :
    \E v \in {Nobody} \cup Server :
        /\ ti > lastTermOf(li)
        /\ tp >= lastTermOf(lp)
        /\ tp = 0 => v = Nobody
        /\ state = [x \in Server |-> IF x = i THEN Candidate ELSE Follower]
        /\ at = [x \in Server |-> IF x = i THEN Candidate ELSE Follower]
        /\ currentTerm = [x \in Server |-> IF x = i THEN ti ELSE tp]
        /\ votedFor = [x \in Server |-> IF x = i THEN i ELSE v]
        /\ leader = [x \in Server |-> Nobody]
        /\ peers = [x \in Server |-> Server \ {x}]
        /\ startIndex = [x \in Server |-> 0]
        /\ startTerm = [x \in Server |-> 0]
        /\ entries = [x \in Server |-> IF x = i THEN li ELSE lp]
        /\ commitIndex = [x \in Server |-> 0]
        /\ commitCount = [x \in Server |-> 0]
        /\ votesGranted = [x \in Server |-> IF x = i THEN 1 ELSE 0]
        /\ lastLogIndex = [x \in Server |-> IF x = i THEN Len(li) ELSE 0]
        /\ lastLogTerm = [x \in Server |-> IF x = i THEN lastTermOf(li) ELSE 0]
        /\ round = [x \in Server |-> IF x = i THEN ti ELSE 0]
        /\ asks = [x \in Server |-> IF x = i THEN {p} ELSE {}]
        /\ prevLogIndex = [x \in Server |-> NoIndex]
        /\ heartbeat = [x \in Server |-> {}]
        /\ c = [x \in Server |-> <<>>]
        /\ applied = [x \in Server |-> <<>>]
        /\ submitted = 0
        /\ lastSnapshot = [x \in Server |-> NoSnapshot]
        /\ update = [x \in Server |-> FALSE]
        /\ waiter = <<>>
        /\ reply = <<>>
        /\ sent = <<>>
        /\ everVoted = {<<i, ti, i>>} \cup (IF v = Nobody THEN {} ELSE {<<p, tp, v>>})
        /\ everCommitted = {}
        /\ currentSnapshot = [x \in Server |-> NoSnapshot]
        /\ taking = [x \in Server |-> [t \in Thread |-> Idle]]
        /\ recovering = [x \in Server |-> FALSE]
        /\ queued = [x \in Server |-> 0]
        /\ stopping = [x \in Server |-> FALSE]

NextVote ==
    \E i \in Server : \E p \in Server : \E d \in BOOLEAN : RequestVote(i, p, d)

SpecVote == InitVote /\ [][NextVote]_vars

----------------------------------------------------------------------------
\* One request of each kind between servers with logs and terms of every shape

\* A sender i of role ri (Candidate in a round of term ti with its vote request to p
\* pending, or Leader of term ti with its heartbeat to p running) and a receiver p
\* of role rp (Follower, or Candidate in a round of term tp with its vote request
\* to i pending) at term tp that has voted for v.
InitRequest ==
    \E i \in Server : \E p \in Server \ {i} :
    \E ri \in {Candidate, Leader} : \E rp \in {Follower, Candidate} :
    \E li \in Logs : \E lp \in Logs :
    \E ti \in 1..MaxTerm : \E tp \in 0..MaxTerm :
    \E v \in {Nobody} \cup Server :
        /\ ti >= lastTermOf(li)
        /\ ri = Candidate => ti > lastTermOf(li)
        /\ tp >= lastTermOf(lp)
        /\ tp = 0 => v = Nobody
        /\ rp = Candidate => (v = p /\ tp > lastTermOf(lp))
        /\ state = [x \in Server |-> IF x = i THEN ri ELSE rp]
        /\ at = [x \in Server |-> IF x = i THEN ri ELSE rp]
        /\ currentTerm = [x \in Server |-> IF x = i THEN ti ELSE tp]
        /\ votedFor = [x \in Server |-> IF x = i THEN i ELSE v]
        /\ leader = [x \in Server |-> IF x = i /\ ri = Leader THEN i ELSE Nobody]
        /\ peers = [x \in Server |-> Server \ {x}]
        /\ startIndex = [x \in Server |-> 0]
        /\ startTerm = [x \in Server |-> 0]
        /\ entries = [x \in Server |-> IF x = i THEN li ELSE lp]
        /\ commitIndex = [x \in Server |-> 0]
        /\ commitCount = [x \in Server |-> 0]
        /\ votesGranted = [x \in Server |->
               IF (x = i /\ ri = Candidate) \/ (x = p /\ rp = Candidate) THEN 1 ELSE 0]
        /\ lastLogIndex = [x \in Server |->
               IF x = i /\ ri = Candidate THEN Len(li)
               ELSE IF x = p /\ rp = Candidate THEN Len(lp) ELSE 0]
        /\ lastLogTerm = [x \in Server |->
               IF x = i /\ ri = Candidate THEN lastTermOf(li)
               ELSE IF x = p /\ rp = Candidate THEN lastTermOf(lp) ELSE 0]
        /\ round = [x \in Server |->
               IF x = i /\ ri = Candidate THEN ti
               ELSE IF x = p /\ rp = Candidate THEN tp ELSE 0]
        /\ asks = [x \in Server |->
               IF x = i /\ ri = Candidate THEN {p}
               ELSE IF x = p /\ rp = Candidate THEN {i} ELSE {}]
        /\ prevLogIndex = [x \in Server |->
               IF x = i /\ ri = Leader
               THEN [q \in Server |-> IF q = p THEN Len(li) ELSE 0]
               ELSE NoIndex]
        /\ heartbeat = [x \in Server |-> IF x = i /\ ri = Leader THEN {p} ELSE {}]
        /\ c = [x \in Server |-> <<>>]
        /\ applied = [x \in Server |-> <<>>]
        /\ submitted = 0
        /\ lastSnapshot = [x \in Server |-> NoSnapshot]
        /\ update = [x \in Server |-> FALSE]
        /\ waiter = <<>>
        /\ reply = <<>>
        /\ sent = <<>>
        /\ everVoted = {<<i, ti, i>>} \cup (IF v = Nobody THEN {} ELSE {<<p, tp, v>>})
        /\ everCommitted = {}
        /\ currentSnapshot = [x \in Server |-> NoSnapshot]
        /\ taking = [x \in Server |-> [t \in Thread |-> Idle]]
        /\ recovering = [x \in Server |-> FALSE]
        /\ queued = [x \in Server |-> 0]
        /\ stopping = [x \in Server |-> FALSE]

NextRequest ==
    \/ \E i \in Server : \E p \in Server : \E d \in BOOLEAN : RequestVote(i, p, d)
    \/ \E i \in Server : \E p \in Server : Heartbeat(i, p)
    \/ \E i \in Server : HandleAppendEntriesResponse(i)

SpecRequest == InitRequest /\ [][NextRequest]_vars

\* The same servers with election timers and clients: a follower's timer fires and
\* commands reach servers that are not leaders.

NextFollower ==
    \/ \E i \in Server : \E p \in Server : \E d \in BOOLEAN : RequestVote(i, p, d)
    \/ \E i \in Server : \E p \in Server : Heartbeat(i, p)
    \/ \E i \in Server : HandleAppendEntriesResponse(i)
    \/ \E i \in Server : FollowerTimeout(i, MaxRound)
    \/ \E i \in Server : DoNotLeader(i, MaxCommands)

SpecFollower == InitRequest /\ [][NextFollower]_vars

----------------------------------------------------------------------------
\* Elections: servers are started and stopped, time out and ask for votes, and
\* clients submit commands.

NextElection ==
    \/ \E i \in Server : StartFollower(i)
    \/ \E i \in Server : StartLeader(i)
    \/ \E i \in Server : Stop(i)
    \/ \E i \in Server : FollowerTimeout(i, MaxTerm)
    \/ \E i \in Server : CandidateTimeout(i, MaxTerm)
    \/ \E i \in Server : \E p \in Server : \E d \in BOOLEAN : RequestVote(i, p, d)
    \/ \E i \in Server : DoNotLeader(i, MaxCommands)
    \/ \E i \in Server : processCommand(i, MaxCommands)

SpecElection == Init /\ [][NextElection]_vars

\* Replication: servers are started and stopped, clients submit commands and the
\* heartbeats replicate them.

NextReplication ==
    \/ \E i \in Server : StartFollower(i)
    \/ \E i \in Server : StartLeader(i)
    \/ \E i \in Server : Stop(i)
    \/ \E i \in Server : processCommand(i, MaxCommands)
    \/ \E i \in Server : \E p \in Server : Heartbeat(i, p)
    \/ \E i \in Server : HandleAppendEntriesResponse(i)

SpecReplication == Init /\ [][NextReplication]_vars

\* Snapshots: replication with log compaction and snapshot recovery.

NextSnapshot ==
    \/ \E i \in Server : StartFollower(i)
    \/ \E i \in Server : StartLeader(i)
    \/ \E i \in Server : processCommand(i, MaxCommands)
    \/ \E i \in Server : \E p \in Server : Heartbeat(i, p)
    \/ \E i \in Server : HandleAppendEntriesResponse(i)
    \/ \E i \in Server : takeSnapshot(i)
    \/ \E i \in Server : \E j \in Server : SnapshotRecovery(i, j)

SpecSnapshot == Init /\ [][NextSnapshot]_vars

\* Membership: n1 adds and removes its peer while servers are started and stopped,
\* elections run and leaders send heartbeats.

NextMembership ==
    \/ \E i \in Server : StartFollower(i)
    \/ \E i \in Server : StartLeader(i)
    \/ \E i \in Server : Stop(i)
    \/ \E i \in Server : FollowerTimeout(i, MaxRound)
    \/ \E i \in Server : CandidateTimeout(i, MaxRound)
    \/ \E i \in Server : \E p \in Server : \E d \in BOOLEAN : RequestVote(i, p, d)
    \/ \E i \in {"n1"} : \E name \in Server : AddPeer(i, name)
    \/ \E i \in {"n1"} : \E name \in Server : RemovePeer(i, name)
    \/ \E i \in Server : \E p \in Server : Heartbeat(i, p)
    \/ \E i \in Server : HandleAppendEntriesResponse(i)

SpecMembership == Init /\ [][NextMembership]_vars

\* The cluster at work: servers started as followers elect a leader, which
\* replicates the clients' commands.

NextCluster ==
    \/ \E i \in Server : StartFollower(i)
    \/ \E i \in Server : FollowerTimeout(i, MaxTerm)
    \/ \E i \in Server : CandidateTimeout(i, MaxTerm)
    \/ \E i \in Server : \E p \in Server : \E d \in BOOLEAN : RequestVote(i, p, d)
    \/ \E i \in Server : processCommand(i, MaxCommands)
    \/ \E i \in Server : \E p \in Server : Heartbeat(i, p)
    \/ \E i \in Server : HandleAppendEntriesResponse(i)

SpecCluster == Init /\ [][NextCluster]_vars

\* The cluster at work, with log compaction on n1 and n2 recovering from the
\* snapshots of n1; election rounds begin while the term is below MaxRound.

NextRecovery ==
    \/ \E i \in Server : StartFollower(i)
    \/ \E i \in Server : FollowerTimeout(i, MaxRound)
    \/ \E i \in Server : CandidateTimeout(i, MaxRound)
    \/ \E i \in Server : \E p \in Server : \E d \in BOOLEAN : RequestVote(i, p, d)
    \/ \E i \in Server : processCommand(i, MaxCommands)
    \/ \E i \in Server : \E p \in Server : Heartbeat(i, p)
    \/ \E i \in Server : HandleAppendEntriesResponse(i)
    \/ \E i \in {"n1"} : takeSnapshot(i)
    \/ \E i \in {"n2"} : \E j \in {"n1"} : SnapshotRecovery(i, j)

SpecRecovery == Init /\ [][NextRecovery]_vars

\* A single node: servers without peers are started as leaders and clients submit
\* commands; every commit signal reaches its waiter before the deadline.

NextSingle ==
    \/ \E i \in Server : StartLeader(i)
    \/ \E i \in Server : processCommand(i, MaxSolo)
    \/ \E i \in Server : HandleAppendEntriesResponse(i)
    \/ \E k \in 1..MaxSolo : WaiterCommitted(k)

SpecSingle == InitSingle /\ [][NextSingle]_vars

\* Saving a snapshot: a single node whose background task takes snapshots, the
\* snapshot file being written or not.

NextSave ==
    \/ \E i \in {"n1"} : StartLeader(i)
    \/ \E i \in {"n1"} : processCommand(i, MaxSolo)
    \/ \E i \in {"n1"} : HandleAppendEntriesResponse(i)
    \/ \E k \in 1..MaxSolo : WaiterCommitted(k)
    \/ \E i \in {"n1"} : takeCheck(i, "background")
    \/ \E i \in {"n1"} : takeCreate(i, "background")
    \/ \E i \in {"n1"} : \E ok \in BOOLEAN : takeSave(i, "background", ok)
    \/ \E i \in {"n1"} : takeCompact(i, "background")

SpecSave == InitSingle /\ [][NextSave]_vars

\* Snapshot threads: a single node with the background task and another caller
\* both in takeSnapshot.

NextThreads ==
    \/ \E i \in {"n1"} : StartLeader(i)
    \/ \E i \in {"n1"} : processCommand(i, MaxSolo)
    \/ \E i \in {"n1"} : HandleAppendEntriesResponse(i)
    \/ \E k \in 1..MaxSolo : WaiterCommitted(k)
    \/ \E i \in {"n1"} : \E t \in Thread : takeCheck(i, t)
    \/ \E i \in {"n1"} : \E t \in Thread : takeCreate(i, t)
    \/ \E i \in {"n1"} : \E t \in Thread : \E ok \in BOOLEAN : takeSave(i, t, ok)
    \/ \E i \in {"n1"} : \E t \in Thread : takeCompact(i, t)

SpecThreads == InitSingle /\ [][NextThreads]_vars

\* Recovery with changing membership: replication with log compaction on n1 while
\* n2 adds and removes its peer and recovers from the snapshots of n1, so that a
\* snapshot request may name a server n2 does not know.  A server whose mutex is
\* held for good takes no further step.

Free == {i \in Server : ~recovering[i]}

NextJoin ==
    \/ \E i \in Free : StartFollower(i)
    \/ \E i \in Free : StartLeader(i)
    \/ \E i \in Free : processCommand(i, MaxCommands)
    \/ \E i \in Free : \E p \in Free : Heartbeat(i, p)
    \/ \E i \in Free : HandleAppendEntriesResponse(i)
    \/ \E i \in Free \cap {"n1"} : takeSnapshot(i)
    \/ \E i \in Free \cap {"n2"} : \E name \in Server : AddPeer(i, name)
    \/ \E i \in Free \cap {"n2"} : \E name \in Server : RemovePeer(i, name)
    \/ \E i \in {"n2"} : \E j \in {"n1"} : SnapshotRecovery(i, j)

SpecJoin == Init /\ [][NextJoin]_vars

\* The event channel: servers without peers are started as leaders, and their
\* clients put commands on the channel while the leader handles them.

NextChannel ==
    \/ \E i \in Server : StartLeader(i)
    \/ \E i \in Server : DoSend(i)
    \/ \E i \in Server : processQueued(i, MaxSolo)
    \/ \E i \in Server : selfAcknowledge(i)
    \/ \E i \in Server : HandleAppendEntriesResponse(i)
    \/ \E k \in 1..MaxSolo : WaiterCommitted(k)

SpecChannel == InitSingle /\ [][NextChannel]_vars

\* Clients: servers started as leaders and stopped, commands, replication, and the
\* goroutines that wait for the commit signal or the deadline.

NextClient ==
    \/ \E i \in {"n1"} : StartLeader(i)
    \/ \E i \in {"n2"} : StartFollower(i)
    \/ \E i \in {"n2"} : FollowerTimeout(i, MaxTerm)
    \/ \E i \in Server : Stop(i)
    \/ \E i \in Server : processCommand(i, MaxCommands)
    \/ \E i \in Server : \E p \in Server : Heartbeat(i, p)
    \/ \E i \in Server : HandleAppendEntriesResponse(i)
    \/ \E k \in 1..MaxCommands : WaiterCommitted(k)
    \/ \E k \in 1..MaxCommands : WaiterTimeout(k)

SpecClient == Init /\ [][NextClient]_vars

\* Every waiting goroutine is scheduled, and its deadline passes.
SpecClientFair == SpecClient /\ \A k \in 1..MaxCommands : WF_vars(WaiterTimeout(k))

----------------------------------------------------------------------------
\* Claims

\* C1: election safety: for every term at most one server is Leader with that
\* currentTerm; stated for the servers that are Leader at the same time: no two
\* servers are Leader with the same currentTerm.
C1_ElectionSafety ==
    \A i, j \in Server :
        (i # j /\ state[i] = Leader /\ state[j] = Leader) => currentTerm[i] # currentTerm[j]

\* C2: commit durability: once a leader's commit rule has covered an entry, every
\* server that is Leader in a later term holds the same entry (term and command) at
\* that index.
C2_CommitDurability ==
    \A e \in everCommitted : \A i \in Server :
        (state[i] = Leader /\ currentTerm[i] > e.term)
            => entryAt(i, e.entry.index) = <<e.entry>>

\* C3: quorum before commit: whenever a Leader handling an AppendEntriesResponse
\* advances its commitIndex to N, at least QuorumSize() servers, the leader counted,
\* hold in their own log the entry the leader holds at N.
C3_QuorumBeforeCommit ==
    [][\A i \in Server :
         (at[i] = Leader /\ c[i] # <<>> /\ c'[i] = Tail(c[i])
              /\ commitIndex'[i] > commitIndex[i])
            => Cardinality(holders(i, commitIndex'[i])) >= QuorumSize(i)]_vars

\* C4: log matching: when two servers both hold an entry at index k with the same
\* term, their entries at all the indices 1..k are identical.
C4_LogMatching ==
    \A i, j \in Server : \A k \in 1..MaxCommands :
        (entryAt(i, k) # <<>> /\ entryAt(j, k) # <<>>
             /\ entryAt(i, k)[1].term = entryAt(j, k)[1].term)
            => \A m \in 1..k : entryAt(i, m) = entryAt(j, m)

\* C6: committed history is never rewritten: a server handling an
\* AppendEntriesRequest never removes or replaces an entry at an index at or below
\* its own commitIndex.
C6_CommittedNeverRewritten ==
    [][\A i \in Server : \A p \in Server : \A k \in 1..MaxCommands :
         (Heartbeat(i, p) /\ k <= commitIndex[p] /\ entryAt(p, k) # <<>>)
            => entryAt(p, k)' = entryAt(p, k)]_vars

\* C7: leader append-only: no step of a server that is Leader before and after it
\* removes or overwrites an entry of its log.
C7_LeaderAppendOnly ==
    [][\A i \in Server : \A k \in 1..MaxCommands :
         (state[i] = Leader /\ state'[i] = Leader /\ entryAt(i, k) # <<>>)
            => entryAt(i, k)' = entryAt(i, k)]_vars

\* C5: state-machine order: on every server apply is invoked on the entries in
\* strictly ascending index order and at most once per index, across leader
\* commits, follower commits and snapshot recovery.
C5_ApplyOrder ==
    \A i \in Server : \A n, m \in 1..Len(applied[i]) :
        n < m => applied[i][n] < applied[i][m]


\* C8: vote uniqueness per term: for every server and every term, at most one
\* non-empty votedFor value is ever recorded while the server's currentTerm is that
\* term, across vote handling, AppendEntries handling, election timeouts and
\* snapshot recovery.
C8_VoteUniqueness ==
    \A a, b \in everVoted : (a[1] = b[1] /\ a[2] = b[2]) => a[3] = b[3]

\* C9: term monotonicity: the currentTerm of a running server never decreases.
C9_TermMonotonic ==
    [][\A i \in Server : state[i] # Stopped => currentTerm'[i] >= currentTerm[i]]_vars


\* C10: stop from any role: once a role loop has dequeued the stop sentinel the
\* role is Stopped and no later event (vote response, timer, request, command)
\* moves the server out of Stopped; only a new start of a returned loop does.
C10_StopIsFinal ==
    [][\A i \in Server :
         (state[i] = Stopped /\ at[i] # "none") => state'[i] = Stopped]_vars


\* C11: a client command dequeued by a server in followerLoop or candidateLoop is
\* answered with NotLeaderError, and the server's log (entries, last index, commit
\* index), currentTerm, votedFor and role are unchanged by it.
C11_NotLeaderError ==
    [][\A i \in Server :
         DoNotLeader(i, MaxCommands) =>
            /\ reply'[submitted'] = <<"NotLeaderError">>
            /\ entries'[i] = entries[i]
            /\ currentIndex(i)' = currentIndex(i)
            /\ commitIndex'[i] = commitIndex[i]
            /\ currentTerm'[i] = currentTerm[i]
            /\ votedFor'[i] = votedFor[i]
            /\ state'[i] = state[i]]_vars

\* A Follower and a Candidate have each answered a command with NotLeaderError.
C11_Witness ==
    /\ submitted = 2
    /\ reply[1] = <<"NotLeaderError">>
    /\ reply[2] = <<"NotLeaderError">>
    /\ \E i \in Server : at[i] = Candidate /\ update[i] = FALSE


\* C12: the client is never left hanging: every command a Leader dequeues is
\* eventually answered, with the append error, the apply result or
\* CommandTimeoutError, also when the leader steps down or is stopped before the
\* entry commits; and the reply channel never receives two values for one command.
C12_OneOutcome ==
    /\ [](\A k \in 1..submitted :
            /\ Len(reply[k]) <= 1
            /\ waiter[k] = "gone" => Len(reply[k]) = 1)
    /\ \A k \in 1..MaxCommands :
           (submitted >= k /\ waiter[k] = "waiting")
               ~> (submitted >= k /\ waiter[k] = "gone" /\ Len(reply[k]) = 1)

\* A command was answered with CommandTimeoutError after its leader was stopped with
\* the entry uncommitted, and another command with its apply result.
C12_Witness ==
    /\ submitted = 2
    /\ \E k \in 1..2 : reply[k] = <<"CommandTimeoutError">>
    /\ \E k \in 1..2 : reply[k] = <<"result">>
    /\ state["n1"] = Stopped
    /\ commitIndex["n1"] < currentIndex("n1")


C14_UpToDateRule ==
    [][\A i \in Server : \A p \in Server :
         ( /\ \E d \in BOOLEAN : RequestVote(i, p, d)
           /\ at[p] = Follower
           /\ round[i] >= currentTerm[p]
           /\ setCurrentTerm(p, round[i], Nobody, FALSE).votedFor \in {Nobody, i} )
         => LET rejected == \/ lastTerm(p) > lastLogTerm[i]
                            \/ /\ lastTerm(p) = lastLogTerm[i]
                               /\ currentIndex(p) > lastLogIndex[i]
            IN IF rejected
               THEN ~update'[p] /\ votedFor'[p] = setCurrentTerm(p, round[i], Nobody, FALSE).votedFor
               ELSE update'[p] /\ votedFor'[p] = i]_vars


\* C15: term adoption: after a running server processes an AppendEntriesRequest, a
\* RequestVoteRequest, an AppendEntriesResponse (in leaderLoop) or a vote response
\* (in candidateLoop) that carries a term greater than its currentTerm, its
\* currentTerm is the received term and its role is Follower; and a Candidate that
\* processes an AppendEntriesRequest of its own term becomes Follower with the
\* sender as its leader.
C15_TermAdoption ==
    [][\A i \in Server : \A p \in Server :
         /\ (Heartbeat(i, p) /\ state[p] # Stopped /\ currentTerm[i] > currentTerm[p])
               => (currentTerm'[p] = currentTerm[i] /\ state'[p] = Follower
                   /\ at'[p] = Follower)
         /\ (Heartbeat(i, p) /\ state[p] = Candidate /\ currentTerm[i] = currentTerm[p])
               => (state'[p] = Follower /\ leader'[p] = i /\ at'[p] = Follower)
         /\ ((\E d \in BOOLEAN : RequestVote(i, p, d)) /\ state[p] # Stopped
                 /\ round[i] > currentTerm[p])
               => (currentTerm'[p] = round[i] /\ state'[p] = Follower /\ at'[p] = Follower)
         /\ (RequestVote(i, p, TRUE) /\ state[i] # Stopped
                 /\ processRequestVoteRequest(p,
                        newRequestVoteRequest(round[i], i, lastLogIndex[i],
                                              lastLogTerm[i])).term > currentTerm[i])
               => (currentTerm'[i] = currentTerm'[p] /\ state'[i] = Follower
                   /\ at'[i] = Follower)
         /\ (HandleAppendEntriesResponse(i) /\ at[i] = Leader /\ state[i] # Stopped
                 /\ Head(c[i]).term > currentTerm[i])
               => (currentTerm'[i] = Head(c[i]).term /\ state'[i] = Follower
                   /\ at'[i] = Follower)]_vars


\* C16: votedFor is reset whenever currentTerm increases: after every step in which
\* a server's currentTerm grows, its votedFor is empty or a vote cast in the new
\* term (its own name on candidacy, or the candidate whose request of the new term
\* it granted); a vote of an older term is never carried into a higher term.
C16_VoteResetOnNewTerm ==
    [][\A i \in Server :
         currentTerm'[i] > currentTerm[i] =>
            \/ votedFor'[i] = Nobody
            \/ votedFor'[i] = i /\ at'[i] = Candidate /\ round'[i] = currentTerm'[i]
            \/ \E j \in Server \ {i} :
                   /\ votedFor'[i] = j
                   /\ at[j] = Candidate /\ round[j] = currentTerm'[i]
                   /\ i \in asks[j] /\ i \notin asks'[j]]_vars


\* C17: stale-term requests change nothing: an AppendEntriesRequest or a
\* RequestVoteRequest whose term is less than the receiver's currentTerm is answered
\* with success = false or voteGranted = false and the receiver's currentTerm, leaves
\* the receiver's role, currentTerm, votedFor, leader, log and commit index
\* unchanged, and does not re-arm a Follower's election timer.
C17_StaleRequest ==
    [][\A i \in Server : \A p \in Server :
         LET same == /\ state'[p] = state[p] /\ at'[p] = at[p]
                     /\ currentTerm'[p] = currentTerm[p]
                     /\ votedFor'[p] = votedFor[p] /\ leader'[p] = leader[p]
                     /\ entries'[p] = entries[p] /\ startIndex'[p] = startIndex[p]
                     /\ commitIndex'[p] = commitIndex[p] /\ applied'[p] = applied[p]
                     /\ ~update'[p]
             vote == processRequestVoteRequest(p,
                         newRequestVoteRequest(round[i], i, lastLogIndex[i], lastLogTerm[i]))
         IN /\ (Heartbeat(i, p) /\ currentTerm[i] < currentTerm[p])
                  => /\ same
                     /\ c'[i][Len(c'[i])] = newAppendEntriesResponse(currentTerm[p], FALSE)
            /\ ((\E d \in BOOLEAN : RequestVote(i, p, d)) /\ round[i] < currentTerm[p])
                  => /\ same
                     /\ ~vote.voteGranted /\ vote.term = currentTerm[p]
                     /\ votesGranted'[i] <= votesGranted[i]]_vars

\* A Follower with a non-empty log has answered a heartbeat of an older term, and the
\* response is on the leader's channel.
C17_Witness ==
    \E i \in Server : \E p \in Server \ {i} :
        /\ at[i] = Leader /\ at[p] = Follower
        /\ currentTerm[i] < currentTerm[p]
        /\ c[i] = <<newAppendEntriesResponse(currentTerm[p], FALSE)>>
        /\ entries[p] # <<>>
        /\ ~update[p]


\* C18: follower timer discipline: a Follower becomes Candidate only when its
\* election timer fires; the timer is re-armed exactly when the follower processes
\* an AppendEntriesRequest with term >= currentTerm or grants a vote, and not by a
\* client command, a stale-term request or a rejected vote request; and while
\* Follower the server never increments its term itself.
C18_FollowerTimer ==
    [][\A p \in Server :
         at[p] = Follower =>
            /\ state'[p] = Candidate => FollowerTimeout(p, MaxRound)
            /\ (at'[p] = Follower /\ currentTerm'[p] > currentTerm[p]) =>
                   \E i \in Server \ {p} :
                       \/ Heartbeat(i, p) /\ currentTerm'[p] = currentTerm[i]
                       \/ (\E d \in BOOLEAN : RequestVote(i, p, d))
                              /\ currentTerm'[p] = round[i]
            /\ \A i \in Server \ {p} :
                   /\ Heartbeat(i, p) =>
                          (update'[p] <=> currentTerm[i] >= currentTerm[p])
                   /\ (\E d \in BOOLEAN : RequestVote(i, p, d)) =>
                          (update'[p] <=>
                              /\ round[i] >= currentTerm[p]
                              /\ votedFor'[p] = i
                              /\ processRequestVoteRequest(p,
                                     newRequestVoteRequest(round[i], i, lastLogIndex[i],
                                                           lastLogTerm[i])).voteGranted)
            /\ DoNotLeader(p, MaxCommands) => ~update'[p]]_vars

\* A command was answered outside leaderLoop and a Follower's election timer has
\* fired: the server is Candidate in its next term while the response to a
\* heartbeat waits on the leader's channel.
C18_Witness ==
    \E p \in Server :
        /\ at[p] = Candidate /\ state[p] = Candidate
        /\ round[p] = currentTerm[p]
        /\ submitted > 0
        /\ \E i \in Server \ {p} : at[i] = Leader /\ c[i] # <<>>


\* C19: heartbeats run only under a Leader: in every reachable state in which a
\* server's role is not Leader (after a step-down, after Stop, and across AddPeer
\* and RemovePeer interleaved with role changes) no peer of that server has a
\* running heartbeat, and only peers have heartbeats.
C19_HeartbeatsOnlyUnderLeader ==
    \A i \in Server :
        /\ heartbeat[i] \subseteq peers[i]
        /\ state[i] # Leader => heartbeat[i] = {}

\* A server that was Leader and is stopped has a peer and no heartbeat, and a server
\* that stepped down to Follower in leaderLoop has none either.
C19_Witness ==
    \E i \in Server : \E j \in Server \ {i} :
        /\ state[i] = Stopped /\ leader[i] = i /\ peers[i] = {j} /\ heartbeat[i] = {}
        /\ state[j] = Follower /\ currentTerm[j] > 1 /\ peers[j] = {i}
        /\ heartbeat[j] = {} /\ votedFor[j] = i


\* C20: a timed-out command may still commit: the leader advances its commit index
\* over an entry whose waiter has returned CommandTimeoutError as over any other,
\* and in every run each entry's commit signal is sent at most once, so that the
\* non-blocking send succeeds.
C20_SignalSentOnce ==
    \A k \in 1..Len(sent) : sent[k] <= 1


C24_SingleWriter ==
    [][\A i \in Server :
         ( /\ at[i] # "none"
           /\ \/ state'[i] # state[i]
              \/ currentTerm'[i] # currentTerm[i]
              \/ votedFor'[i] # votedFor[i]
              \/ leader'[i] # leader[i]
              \/ entries'[i] # entries[i]
              \/ commitIndex'[i] # commitIndex[i] )
         => \/ FollowerTimeout(i, MaxRound)
            \/ CandidateTimeout(i, MaxRound)
            \/ processCommand(i, MaxCommands)
            \/ HandleAppendEntriesResponse(i)
            \/ \E p \in Server : \E d \in BOOLEAN : RequestVote(i, p, d) \/ RequestVote(p, i, d)
            \/ \E p \in Server : Heartbeat(p, i)]_vars


\* C26: exactly one reply per event: every event a role loop dequeues, in each of
\* the roles Follower, Candidate and Leader, has a value sent on its reply channel,
\* so no Stop() caller is left waiting in send() after the loop took its sentinel.
C26_OneReply ==
    /\ \A i \in Server : ~stopping[i]
    /\ [][\A i \in Server : Stop(i) => ~stopping'[i]]_vars


\* C21: snapshot mutual exclusion: under any interleaving of concurrent takeSnapshot
\* callers at most one of them is between creating currentSnapshot and finishing
\* log.compact.
C21_SnapshotExclusion ==
    \A i \in Server :
        Cardinality({t \in Thread : taking[i][t].pc \in {"created", "saved"}}) <= 1

\* C22: persist before compaction: takeSnapshot compacts the log only after the
\* snapshot of the commit point it read was persisted, and a failed save leaves
\* currentSnapshot cleared.
C22_PersistBeforeCompact ==
    [][\A i \in Server : \A t \in Thread :
         /\ takeCompact(i, t) =>
                lastSnapshot[i] = [lastIndex |-> taking[i][t].lastIndex,
                                   lastTerm |-> taking[i][t].lastTerm]
         /\ takeSave(i, t, FALSE) => currentSnapshot'[i] = NoSnapshot]_vars


\* C23: SnapshotRecovery completes: for every request, also one that names a server
\* not yet in the peer set, the call does not block on the lock it holds, and on
\* return the peer set holds every other name of the request, currentTerm is the
\* request's lastTerm and the commit index the request's lastIndex.
C23_RecoveryCompletes ==
    /\ \A i \in Server : ~recovering[i]
    /\ [][\A i \in Server : \A j \in Server :
            SnapshotRecovery(i, j) =>
                /\ (peers[j] \cup {j}) \ {i} \subseteq peers'[i]
                /\ currentTerm'[i] = lastSnapshot[j].lastTerm
                /\ commitIndex'[i] = lastSnapshot[j].lastIndex]_vars


\* C25: the leader loop never blocks on its own channel: after it handled a client
\* command the leader is never left waiting to put its own acknowledgement on a
\* full event channel, which it alone consumes.
C25_LeaderNeverBlocks ==
    \A i \in Server : ~(at[i] = Sending /\ occupancy(i) >= MaxEvents)

====
